---- MODULE Spec2Model ----
(***************************************************************************)
(* The quotes sync of the personal website (src/unnamed/part_001): a batch *)
(* job that loads quotes.json, fetches the Brain Food index, fetches every *)
(* article newer than the stored watermark, merges the scraped quotes into *)
(* the store, keeps the 12 most recent editions and writes the file back.  *)
(*                                                                         *)
(* Strings of the program are TLA+ strings; dates are the ISO strings the  *)
(* program builds ("2026-02-22").                                          *)
(***************************************************************************)
EXTENDS Integers, Sequences, FiniteSets, TLC

(***************************************************************************)
(* Bounds of the model.                                                    *)
(***************************************************************************)
\* Runs of main() in one behaviour.
MaxRuns == 2
\* Links (href values) on one index page.
MaxLinks == 3
\* Editions already in the store file of the aged initial state.
SeedEditions == 11

(***************************************************************************)
(* Constants of the program.                                               *)
(***************************************************************************)
\* fetchUrl: if (redirects > 5) reject
MaxRedirects == 5
\* scrapeArticle: if (quotes.length >= 3) break
MaxQuotes == 3
\* scrapeArticle: if (text.length > 5) parts.push(text)
MinTextLen == 5
\* main: uniqueDates.slice(-12)
Retention == 12
\* padStart(2, '0')
PadWidth == 2

DefaultLastUpdated == "2025-12-01"
BaseUrl == "https://fs.blog/brain-food/"
Origin == "https://fs.blog"

(***************************************************************************)
(* Strings.                                                                *)
(***************************************************************************)
Digits == "0123456789"
Lower == "abcdefghijklmnopqrstuvwxyz"
Upper == "ABCDEFGHIJKLMNOPQRSTUVWXYZ"
\* The characters of the model's date strings in UTF-16 code unit order.
CodeOrder == "-0123456789"

CharAt(s, i) == SubSeq(s, i, i)

CharsOf(s) == { CharAt(s, i) : i \in 1..Len(s) }

\* The position of each character of s in s, from 1.
PositionIn(s) == [c \in CharsOf(s) |-> CHOOSE i \in 1..Len(s) : CharAt(s, i) = c]

DigitChars == CharsOf(Digits)
LowerChars == CharsOf(Lower)
DigitPosition == PositionIn(Digits)
LowerPosition == PositionIn(Lower)
CodePosition == PositionIn(CodeOrder)

IsDigit(c) == c \in DigitChars
IsLower(c) == c \in LowerChars

AllDigits(s) == \A i \in 1..Len(s) : IsDigit(CharAt(s, i))

StartsWith(s, p) == Len(s) >= Len(p) /\ SubSeq(s, 1, Len(p)) = p
EndsWith(s, p) == Len(s) >= Len(p) /\ SubSeq(s, Len(s) - Len(p) + 1, Len(s)) = p

\* s.split(sep) for a single-character separator.
RECURSIVE SplitFrom(_, _, _, _)
SplitFrom(s, sep, start, i) ==
    IF i > Len(s) THEN << SubSeq(s, start, Len(s)) >>
    ELSE IF CharAt(s, i) = sep
         THEN << SubSeq(s, start, i - 1) >> \o SplitFrom(s, sep, i + 1, i + 1)
         ELSE SplitFrom(s, sep, start, i + 1)

Split(s, sep) == SplitFrom(s, sep, 1, 1)

\* parts.join(sep)
RECURSIVE Join(_, _)
Join(parts, sep) ==
    IF Len(parts) = 0 THEN ""
    ELSE IF Len(parts) = 1 THEN parts[1]
    ELSE parts[1] \o sep \o Join(Tail(parts), sep)

\* parseInt of a string of digits.
RECURSIVE ParseIntFrom(_, _, _)
ParseIntFrom(s, i, acc) ==
    IF i > Len(s) THEN acc
    ELSE ParseIntFrom(s, i + 1, 10 * acc + (DigitPosition[CharAt(s, i)] - 1))

ParseInt(s) == ParseIntFrom(s, 1, 0)

\* s.padStart(2, '0')
RECURSIVE PadStart(_)
PadStart(s) == IF Len(s) >= PadWidth THEN s ELSE PadStart("0" \o s)

\* c.toUpperCase() for one character.
ToUpperCase(c) ==
    IF IsLower(c) THEN CharAt(Upper, LowerPosition[c]) ELSE c

\* Comparison of strings by code units (Array.prototype.sort's default order;
\* localeCompare orders the program's date strings the same way).
StrLess(a, b) ==
    \/ Len(a) < Len(b) /\ SubSeq(b, 1, Len(a)) = a
    \/ \E i \in 1..Len(a) :
          /\ i <= Len(b)
          /\ SubSeq(a, 1, i - 1) = SubSeq(b, 1, i - 1)
          /\ CodePosition[CharAt(a, i)] < CodePosition[CharAt(b, i)]
StrLeq(a, b) == a = b \/ StrLess(a, b)

(***************************************************************************)
(* Text normalizer (stripHtml).  The characters outside ASCII that it      *)
(* writes are given by their escapes.                                      *)
(***************************************************************************)
Whitespace == { " ", "\t", "\n" }

Least(S) == CHOOSE j \in S : \A k \in S : j <= k
Greatest(S) == CHOOSE j \in S : \A k \in S : k <= j

\* The least position from i on whose character is in a set, or 0.
FirstIn(s, chars, i) ==
    LET found == { j \in i..Len(s) : CharAt(s, j) \in chars }
    IN  IF found = { } THEN 0 ELSE Least(found)

\* The least position from i on whose character is not in a set, or 0.
FirstNotIn(s, chars, i) ==
    LET found == { j \in i..Len(s) : CharAt(s, j) \notin chars }
    IN  IF found = { } THEN 0 ELSE Least(found)

\* The greatest position whose character is not in a set, or 0.
LastNotIn(s, chars) ==
    LET found == { j \in 1..Len(s) : CharAt(s, j) \notin chars }
    IN  IF found = { } THEN 0 ELSE Greatest(found)

\* The pieces lo..hi of a sequence of strings, joined.
RECURSIVE Concat(_, _, _)
Concat(pieces, lo, hi) ==
    IF lo > hi THEN ""
    ELSE IF lo = hi THEN pieces[lo]
    ELSE LET mid == (lo + hi) \div 2
         IN  Concat(pieces, lo, mid) \o Concat(pieces, mid + 1, hi)

\* s.replace(/pat/g, rep) for a literal pattern that does not overlap itself
\* (every occurrence is then a match): what each position of s leaves.
ReplaceAll(s, pat, rep) ==
    LET Match(i) ==
            i >= 1 /\ i + Len(pat) - 1 <= Len(s) /\ SubSeq(s, i, i + Len(pat) - 1) = pat
        Piece(i) ==
            IF Match(i) THEN rep
            ELSE IF \E k \in 1..(Len(pat) - 1) : Match(i - k) THEN ""
            ELSE CharAt(s, i)
    IN  Concat([i \in 1..Len(s) |-> Piece(i)], 1, Len(s))

\* .replace(/<[^>]+>/g, ''): a match runs from a '<' to the first '>' after
\* it, which is not the next character; a '<' inside a match has the same
\* '>', so the matches taken from the left remove what all of them cover.
StripTags(s) ==
    LET Close(i) == FirstIn(s, { ">" }, i + 1)
        Opens(i) == CharAt(s, i) = "<" /\ Close(i) > i + 1
        Inside(i) == \E k \in 1..i : Opens(k) /\ i <= Close(k)
    IN  Concat([i \in 1..Len(s) |-> IF Inside(i) THEN "" ELSE CharAt(s, i)],
               1, Len(s))

\* .replace(/&#\d+;/g, '') with lead "&#" and the digits as body, and
\* .replace(/&[a-z]+;/g, '') with lead "&" and the lower-case letters as body:
\* the lead, one or more characters of the body, then ';'.  No match holds
\* the start of another.
DropReferences(s, lead, body) ==
    LET Stop(i) == FirstNotIn(s, body, i + Len(lead))
        Match(i) ==
            /\ i + Len(lead) - 1 <= Len(s)
            /\ SubSeq(s, i, i + Len(lead) - 1) = lead
            /\ Stop(i) > i + Len(lead)
            /\ CharAt(s, Stop(i)) = ";"
        Inside(i) == \E k \in 1..i : Match(k) /\ i <= Stop(k)
    IN  Concat([i \in 1..Len(s) |-> IF Inside(i) THEN "" ELSE CharAt(s, i)],
               1, Len(s))

\* .replace(/\s+/g, ' ')
Collapse(s) ==
    LET Blank(i) == CharAt(s, i) \in Whitespace
        Piece(i) ==
            IF ~Blank(i) THEN CharAt(s, i)
            ELSE IF i > 1 /\ Blank(i - 1) THEN ""
            ELSE " "
    IN  Concat([i \in 1..Len(s) |-> Piece(i)], 1, Len(s))

\* .trim()
Trim(s) ==
    LET first == FirstNotIn(s, Whitespace, 1)
    IN  IF first = 0 THEN "" ELSE SubSeq(s, first, LastNotIn(s, Whitespace))

\* The replacements of the fixed entity table, in the order they are applied.
EntityTable ==
    << << "&amp;", "&" >>, << "&lt;", "<" >>, << "&gt;", ">" >>,
       << "&quot;", "\"" >>,
       << "&#8220;", "\\u201C" >>, << "&ldquo;", "\\u201C" >>,
       << "&#8221;", "\\u201D" >>, << "&rdquo;", "\\u201D" >>,
       << "&#8216;", "\\u2018" >>, << "&lsquo;", "\\u2018" >>,
       << "&#8217;", "\\u2019" >>, << "&rsquo;", "\\u2019" >>,
       << "&#8212;", "\\u2014" >>, << "&mdash;", "\\u2014" >>,
       << "&#8211;", "\\u2013" >>, << "&ndash;", "\\u2013" >>,
       << "&nbsp;", " " >> >>

RECURSIVE DecodeFrom(_, _)
DecodeFrom(s, k) ==
    IF k > Len(EntityTable) THEN s
    ELSE DecodeFrom(ReplaceAll(s, EntityTable[k][1], EntityTable[k][2]), k + 1)

stripHtml(str) ==
    LET untagged == StripTags(str)
        decoded == DecodeFrom(untagged, 1)
        unnumbered == DropReferences(decoded, "&#", DigitChars)
        unnamed == DropReferences(unnumbered, "&", LowerChars)
    IN  Trim(Collapse(unnamed))

(***************************************************************************)
(* Slug date parser (parseDateFromSlug) and the Date conversion.           *)
(***************************************************************************)
Null == "<null>"

MonthNames == << "january", "february", "march", "april", "may", "june",
                 "july", "august", "september", "october", "november", "december" >>

\* Property names every object literal inherits from Object.prototype.
InheritedNames == { "constructor", "toString", "valueOf", "hasOwnProperty",
                    "isPrototypeOf", "propertyIsEnumerable", "toLocaleString" }

\* MONTHS[name]: the month's number, 0 for undefined, -1 for an inherited
\* function of Object.prototype (truthy, not a number).
MONTHS(name) ==
    IF \E i \in 1..Len(MonthNames) : MonthNames[i] = name
    THEN CHOOSE i \in 1..Len(MonthNames) : MonthNames[i] = name
    ELSE IF name \in InheritedNames THEN -1
    ELSE 0

\* String(month)
MonthString(name) ==
    IF MONTHS(name) > 0 THEN ToString(MONTHS(name))
    ELSE IF name = "constructor" THEN "function Object() { [native code] }"
    ELSE "function " \o name \o "() { [native code] }"

\* /^\d{4}$/.test(year)
IsYear(s) == Len(s) = 4 /\ AllDigits(s)
\* /^\d{1,2}$/.test(day)
IsDay(s) == Len(s) \in 1..2 /\ AllDigits(s)

parseDateFromSlug(slug) ==
    LET parts == Split(slug, "-")
        n == Len(parts)
    IN  IF n < 3 THEN Null
        ELSE LET year == parts[n]
                 day == parts[n - 1]
                 monthName == Join(SubSeq(parts, 1, n - 2), "-")
             IN  IF MONTHS(monthName) = 0 \/ ~IsYear(year) \/ ~IsDay(day)
                 THEN Null
                 ELSE year \o "-" \o PadStart(MonthString(monthName))
                           \o "-" \o PadStart(ToString(ParseInt(day)))

\* The value of an Invalid Date.
NaN == -1

IsLeapYear(y) == (y % 4 = 0 /\ y % 100 # 0) \/ y % 400 = 0

DaysInMonth(y, m) ==
    IF m = 2 THEN (IF IsLeapYear(y) THEN 29 ELSE 28)
    ELSE IF m \in {4, 6, 9, 11} THEN 30
    ELSE 31

RECURSIVE DaysBeforeMonth(_, _)
DaysBeforeMonth(y, m) ==
    IF m <= 1 THEN 0 ELSE DaysBeforeMonth(y, m - 1) + DaysInMonth(y, m - 1)

\* Days from 0000-01-01 to the first day of year y.
DaysBeforeYear(y) ==
    IF y = 0 THEN 0
    ELSE 365 * y + ((y - 1) \div 4) - ((y - 1) \div 100) + ((y - 1) \div 400) + 1

\* MakeDay: a day past the end of the month runs into the next month.
MakeDay(y, m, d) == DaysBeforeYear(y) + DaysBeforeMonth(y, m) + d

\* The date-only ISO form YYYY-MM-DD.
IsIsoShape(s) ==
    /\ Len(s) = 10
    /\ AllDigits(SubSeq(s, 1, 4))
    /\ CharAt(s, 5) = "-"
    /\ AllDigits(SubSeq(s, 6, 7))
    /\ CharAt(s, 8) = "-"
    /\ AllDigits(SubSeq(s, 9, 10))

\* new Date(s) on Node (V8), as a day number: the ISO form is accepted with a
\* month in 1..12 and a day in 1..31 whatever the month; anything else the
\* program can build is an Invalid Date.
NewDate(s) ==
    IF ~IsIsoShape(s) THEN NaN
    ELSE LET y == ParseInt(SubSeq(s, 1, 4))
             m == ParseInt(SubSeq(s, 6, 7))
             d == ParseInt(SubSeq(s, 9, 10))
         IN  IF m \in 1..12 /\ d \in 1..31 THEN MakeDay(y, m, d) ELSE NaN

\* a > b on Date values: false when either is an Invalid Date.
DateGreater(a, b) == a # NaN /\ b # NaN /\ a > b

(***************************************************************************)
(* Index links.                                                            *)
(***************************************************************************)
IsSlugChar(c) == IsLower(c) \/ IsDigit(c) \/ c = "-"

\* linkRegex: href="(https://fs.blog/brain-food/[a-z][a-z0-9-]+-\d{4}/)"
LinkMatches(href) ==
    /\ StartsWith(href, BaseUrl)
    /\ EndsWith(href, "/")
    /\ LET body == SubSeq(href, Len(BaseUrl) + 1, Len(href) - 1)
           n == Len(body)
       IN  /\ n >= 7
           /\ IsLower(CharAt(body, 1))
           /\ \A i \in 2..(n - 5) : IsSlugChar(CharAt(body, i))
           /\ CharAt(body, n - 4) = "-"
           /\ AllDigits(SubSeq(body, n - 3, n))

\* urlSet: the matching links in order of first appearance (a Set iterates in
\* insertion order).
RECURSIVE ExtractLinks(_, _)
ExtractLinks(hrefs, acc) ==
    IF Len(hrefs) = 0 THEN acc
    ELSE LET h == Head(hrefs)
             seen == \E i \in 1..Len(acc) : acc[i] = h
         IN  ExtractLinks(Tail(hrefs),
                          IF LinkMatches(h) /\ ~seen THEN Append(acc, h) ELSE acc)

\* url.replace('https://fs.blog/brain-food/', '').replace(/\/$/, '')
SlugOf(url) ==
    LET rest == IF StartsWith(url, BaseUrl)
                THEN SubSeq(url, Len(BaseUrl) + 1, Len(url)) ELSE url
    IN  IF EndsWith(rest, "/") THEN SubSeq(rest, 1, Len(rest) - 1) ELSE rest

\* new Date(date) > lastUpdatedDate
IsNewer(date, lastUpdatedDate) == DateGreater(NewDate(date), lastUpdatedDate)

\* The articles kept by the filter loop, in urlSet order.
RECURSIVE FilterArticles(_, _)
FilterArticles(urls, lastUpdatedDate) ==
    IF Len(urls) = 0 THEN << >>
    ELSE LET url == Head(urls)
             slug == SlugOf(url)
             date == parseDateFromSlug(slug)
             rest == FilterArticles(Tail(urls), lastUpdatedDate)
         IN  IF date # Null /\ IsNewer(date, lastUpdatedDate)
             THEN << [url |-> url, date |-> date, slug |-> slug] >> \o rest
             ELSE rest

\* a.date.localeCompare(b.date) <= 0
DateBefore(a, b) == StrLeq(a.date, b.date)

\* articles.sort(...): a stable insertion sort by date.
RECURSIVE InsertSorted(_, _)
InsertSorted(sorted, a) ==
    IF Len(sorted) = 0 THEN << a >>
    ELSE IF DateBefore(sorted[Len(sorted)], a) THEN Append(sorted, a)
    ELSE Append(InsertSorted(SubSeq(sorted, 1, Len(sorted) - 1), a), sorted[Len(sorted)])

RECURSIVE SortArticles(_)
SortArticles(list) ==
    IF Len(list) = 0 THEN << >>
    ELSE InsertSorted(SortArticles(SubSeq(list, 1, Len(list) - 1)),
                      list[Len(list)])

\* The en dash U+2013 of the edition label, written as its escape.
EnDash == "\\u2013"

\* Variant of EditionOf: the day is written as the slug has it.
EditionAsWritten(slug) ==
    LET parts == Split(slug, "-")
        n == Len(parts)
        monthName == Join(SubSeq(parts, 1, n - 2), " ")
    IN  "Brain Food " \o EnDash \o " " \o ToUpperCase(CharAt(monthName, 1))
            \o SubSeq(monthName, 2, Len(monthName))
            \o " " \o parts[n - 1] \o ", " \o parts[n]

\* The edition label built in the article loop.
EditionOf(slug) ==
    LET parts == Split(slug, "-")
        n == Len(parts)
        year == parts[n]
        day == ParseInt(parts[n - 1])
        monthName == Join(SubSeq(parts, 1, n - 2), " ")
    IN  "Brain Food " \o EnDash \o " " \o ToUpperCase(CharAt(monthName, 1))
            \o SubSeq(monthName, 2, Len(monthName))
            \o " " \o ToString(day) \o ", " \o year

(***************************************************************************)
(* Section extractor (scrapeArticle).  A page body is given by what the    *)
(* scan reads from it: whether the anchor id="h-tiny-thoughts" occurs, and *)
(* the groups of the section, each the inner contents of its paragraphs.   *)
(***************************************************************************)
\* const text = stripHtml(m[1]); if (text.length > 5) parts.push(text)
\* text.length: the code units of a text, where an escape \uXXXX of the
\* strings of this model stands for the one code unit it names.
CodeUnits(text) ==
    Len(text) - 5 * Cardinality({ i \in 1..(Len(text) - 1) :
                                    SubSeq(text, i, i + 1) = "\\u" })

PartsOf(group) ==
    LET Kept(text) == CodeUnits(text) > MinTextLen
    IN  SelectSeq([p \in DOMAIN group |-> stripHtml(group[p])], Kept)

\* Variant of ScanGroups: the loop does not stop at three quotes.
RECURSIVE ScanGroupsUncapped(_, _, _, _)
ScanGroupsUncapped(groups, quotes, date, edition) ==
    IF Len(groups) = 0 THEN quotes
    ELSE LET parts == PartsOf(Head(groups))
         IN  ScanGroupsUncapped(Tail(groups),
                                IF Len(parts) > 0
                                THEN Append(quotes, [text |-> Join(parts, " "),
                                                     edition |-> edition,
                                                     date |-> date])
                                ELSE quotes,
                                date, edition)

\* The loop over the groups, with the quotes collected so far.
RECURSIVE ScanGroups(_, _, _, _)
ScanGroups(groups, quotes, date, edition) ==
    IF Len(groups) = 0 \/ Len(quotes) >= MaxQuotes THEN quotes
    ELSE LET parts == PartsOf(Head(groups))
         IN  ScanGroups(Tail(groups),
                        IF Len(parts) > 0
                        THEN Append(quotes, [text |-> Join(parts, " "),
                                             edition |-> edition,
                                             date |-> date])
                        ELSE quotes,
                        date, edition)

scrapeArticle(html, date, edition) ==
    IF ~html.anchor THEN << >>
    ELSE ScanGroups(html.groups, << >>, date, edition)

(***************************************************************************)
(* Fetcher (fetchUrl).  A server is the script of its answers: `hops`      *)
(* answers 3xx with a Location header (every answer when `loop`), then the *)
(* final answer: a status with a body, or a transport error.               *)
(***************************************************************************)
\* Redirect hops a scripted server answers before its final answer.
MaxHops == 7

\* The bodies the scripted servers send.
RedirectNotice == "<a>moved</a>"
Content == "<html>content</html>"

\* The answer to the request sent by the call fetchUrl(url, n).
Respond(server, n) ==
    IF server.loop \/ n < server.hops
    THEN [status |-> 301, error |-> FALSE, data |-> RedirectNotice,
          location |-> IF server.relative THEN "/moved/" ELSE Origin \o "/moved/"]
    ELSE IF server.final = "error"
    THEN [status |-> 0, error |-> TRUE, data |-> "", location |-> ""]
    ELSE [status |-> IF server.final = "ok" THEN 200 ELSE 304,
          error |-> FALSE, data |-> Content, location |-> ""]

\* res.statusCode >= 300 && res.statusCode < 400 && res.headers.location
IsRedirect(res) == res.status >= 300 /\ res.status < 400 /\ res.location # ""

\* loc.startsWith('http') ? loc : `https://fs.blog${loc}`
NextUrl(loc) == IF StartsWith(loc, "http") THEN loc ELSE Origin \o loc

\* Variant of TooManyRedirects: the budget is one hop larger.
TooManyRedirectsLate(redirects) == redirects > MaxRedirects + 1

\* if (redirects > 5) reject
TooManyRedirects(redirects) == redirects > MaxRedirects

\* The outcome of fetchUrl(url, redirects) against a server: whether the
\* promise resolves and with what data, the rejection's message, the requests
\* sent so far and the URL of the last call.
RECURSIVE fetchUrl(_, _, _)
fetchUrl(url, redirects, server) ==
    IF TooManyRedirects(redirects)
    THEN [resolved |-> FALSE, data |-> "", error |-> "Too many redirects",
          requests |-> redirects, url |-> url]
    ELSE LET res == Respond(server, redirects)
         IN  IF res.error
             THEN [resolved |-> FALSE, data |-> "", error |-> "transport",
                   requests |-> redirects + 1, url |-> url]
             ELSE IF IsRedirect(res)
             THEN fetchUrl(NextUrl(res.location), redirects + 1, server)
             ELSE [resolved |-> TRUE, data |-> res.data, error |-> "",
                   requests |-> redirects + 1, url |-> url]

Servers ==
    [hops : 0..MaxHops, loop : {FALSE}, relative : BOOLEAN,
     final : {"ok", "no location", "error"}]
    \cup [hops : {0}, loop : {TRUE}, relative : BOOLEAN, final : {"ok"}]

\* What a call fetchUrl(url) can come to, over the servers: the data it can
\* resolve with, and the messages it can reject with.
Outcomes(url) == { fetchUrl(url, 0, server) : server \in Servers }
Resolutions(url) == { r.data : r \in { o \in Outcomes(url) : o.resolved } }
Rejections(url) == { r.error : r \in { o \in Outcomes(url) : ~o.resolved } }

(***************************************************************************)
(* Merge and retention (the tail of main).                                 *)
(***************************************************************************)
DefaultStore == [lastUpdated |-> DefaultLastUpdated, quotes |-> << >>]

DatesOf(quotes) == { quotes[i].date : i \in 1..Len(quotes) }

\* [...new Set(dates)].sort(): the least date first, then the rest sorted.
RECURSIVE SortDates(_)
SortDates(S) ==
    IF S = { } THEN << >>
    ELSE LET least == CHOOSE d \in S : \A e \in S : StrLeq(d, e)
         IN  << least >> \o SortDates(S \ { least })

\* Variant of RecentDates: no date is pruned.
RecentDatesAll(uniqueDates) == { uniqueDates[i] : i \in 1..Len(uniqueDates) }

\* new Set(uniqueDates.slice(-12))
RecentDates(uniqueDates) ==
    LET n == Len(uniqueDates)
        first == IF n > Retention THEN n - Retention + 1 ELSE 1
    IN  { uniqueDates[i] : i \in first..n }

\* allQuotes.filter(q => recentDates.has(q.date))
FilterQuotes(quotes, dates) ==
    LET Recent(q) == q.date \in dates
    IN  SelectSeq(quotes, Recent)

\* Variant of LatestDate: the first of the sorted dates is taken.
LatestDateFirst(uniqueDates, lastUpdated) ==
    IF Len(uniqueDates) > 0 THEN uniqueDates[1] ELSE lastUpdated

\* uniqueDates.length ? uniqueDates[uniqueDates.length - 1] : existing.lastUpdated
LatestDate(uniqueDates, lastUpdated) ==
    IF Len(uniqueDates) > 0 THEN uniqueDates[Len(uniqueDates)] ELSE lastUpdated

\* Variant of Merge: the new quotes are put before the loaded ones.
MergeNewFirst(store, fresh) ==
    LET allQuotes == fresh \o store.quotes
        uniqueDates == SortDates(DatesOf(allQuotes))
    IN  [lastUpdated |-> LatestDate(uniqueDates, store.lastUpdated),
         quotes |-> FilterQuotes(allQuotes, RecentDates(uniqueDates))]

\* Variant of Merge: lastUpdated is the date of the last quote handled.
MergeLastQuote(store, fresh) ==
    LET allQuotes == store.quotes \o fresh
        uniqueDates == SortDates(DatesOf(allQuotes))
    IN  [lastUpdated |-> IF Len(allQuotes) > 0
                         THEN allQuotes[Len(allQuotes)].date
                         ELSE store.lastUpdated,
         quotes |-> FilterQuotes(allQuotes, RecentDates(uniqueDates))]

\* The output object built from the loaded store and the run's new quotes.
Merge(store, fresh) ==
    LET allQuotes == store.quotes \o fresh
        uniqueDates == SortDates(DatesOf(allQuotes))
    IN  [lastUpdated |-> LatestDate(uniqueDates, store.lastUpdated),
         quotes |-> FilterQuotes(allQuotes, RecentDates(uniqueDates))]

(***************************************************************************)
(* Inputs of the model: the links an index page can carry, the article     *)
(* pages, and the store an earlier history of runs has left on disk.       *)
(***************************************************************************)
Hrefs == << BaseUrl \o "january-5-2026/",
            BaseUrl \o "january-05-2026/",
            BaseUrl \o "february-22-2026/",
            BaseUrl \o "february-30-2026/",
            BaseUrl \o "march-1-2026/",
            BaseUrl \o "best-of-2025/",
            BaseUrl \o "constructor-1-2026/",
            Origin \o "/about/" >>

\* The href values of an index page, in document order.
RECURSIVE SeqsUpTo(_, _)
SeqsUpTo(S, n) ==
    IF n = 0 THEN { << >> }
    ELSE LET shorter == SeqsUpTo(S, n - 1)
         IN  shorter \cup { Append(q, x) : q \in shorter, x \in S }

IndexPages == SeqsUpTo({ Hrefs[i] : i \in 1..Len(Hrefs) }, MaxLinks)

NoAnchorPage == [anchor |-> FALSE, groups |-> << >>]
TwoGroupsPage ==
    [anchor |-> TRUE,
     groups |-> << << "First thought.", "tiny" >>,
                   << "tiny" >>,
                   << "Second thought.", "It goes on." >> >>]
FourGroupsPage ==
    [anchor |-> TRUE,
     groups |-> << << "Thought one." >>, << "Thought two." >>,
                   << "Thought three." >>, << "Thought four." >> >>]
OneGroupPage == [anchor |-> TRUE, groups |-> << << "A single thought." >> >>]

Pages == { NoAnchorPage, TwoGroupsPage }

\* The page of a shape that the article of a slug serves: each article has
\* its own wording (its paragraphs of text name it), the fillers are the same
\* everywhere.
Served(html, slug) ==
    LET Worded(text) ==
            IF text = "tiny" THEN text ELSE text \o " (" \o slug \o ")"
    IN  [anchor |-> html.anchor,
         groups |-> [g \in DOMAIN html.groups |->
                        [p \in DOMAIN html.groups[g] |->
                            Worded(html.groups[g][p])]]]

\* The editions of December 2025 that earlier runs have stored: the k-th one
\* is dated 2025-12-(k+1).
SeedSlug(k) == "december-" \o ToString(k + 1) \o "-2025"
SeedPage(k) ==
    IF k % 3 = 0 THEN FourGroupsPage
    ELSE IF k % 3 = 1 THEN OneGroupPage
    ELSE TwoGroupsPage

\* The quotes of the first k of these editions, oldest first.
RECURSIVE SeedQuotes(_)
SeedQuotes(k) ==
    IF k = 0 THEN << >>
    ELSE SeedQuotes(k - 1)
            \o scrapeArticle(Served(SeedPage(k), SeedSlug(k)),
                             parseDateFromSlug(SeedSlug(k)),
                             EditionOf(SeedSlug(k)))

\* The store an earlier run has written after it found these editions.
AgedStore == Merge(DefaultStore, SeedQuotes(SeedEditions))

(***************************************************************************)
(* State.                                                                  *)
(***************************************************************************)
VARIABLES
    file,       \* quotes.json: status "absent", "complete" (doc is its content),
                \* "truncated" (opened for writing, content not written) or
                \* "garbled" (a text written over a longer one; doc is the
                \* content that gives the file its length)
    runs,       \* runs of main() started so far
    pc,         \* where the current run is
    exitCode,   \* exit status of the run: -1 while none, else 0 or 1
    error,      \* what main().catch has logged: where the run failed and why
    existing,   \* main: the loaded store
    articles,   \* main: the sorted candidates
    idx,        \* main: position of the article loop, from 1
    newQuotes,  \* main: the quotes accumulated by the article loop
    output,     \* main: the object handed to writeFileSync
    log,        \* history: the article fetches of the run, in order
    fetches,    \* history: top-level fetchUrl calls of the run (index included)
    prior,      \* history: the file as it was when the run started
    writes,     \* history: writeFileSync calls of the run that completed
    call,       \* a fetchUrl call on its own: its URL and the server it meets
    reply,      \* the outcome of that call, once settled
    input,      \* a function of the program on its own: its argument
    result,     \* and what its successive applications have returned
    other,      \* a second run of main() started while the first one runs
    clock,      \* sync-thoughts-auto.sh: the time of day, in seconds
    lock,       \* sync-thoughts-auto.sh: the content of $LOCK_FILE
    shell       \* sync-thoughts-auto.sh: the invocations of the script

vars == << file, runs, pc, exitCode, error, existing, articles, idx, newQuotes,
           output, log, fetches, prior, writes, call, reply, input, result,
           other, clock, lock, shell >>

locals == << existing, articles, idx, newQuotes, output, log >>
scratch == << articles, idx, newQuotes, output, log >>
fetcher == << call, reply >>
pure == << input, result >>
wrapper == << clock, lock, shell >>
aside == << pure, other, wrapper >>

AbsentFile == [status |-> "absent", doc |-> DefaultStore]
TruncatedFile == [status |-> "truncated", doc |-> DefaultStore]
CompleteFile(doc) == [status |-> "complete", doc |-> doc]

NoError == [at |-> "none", message |-> ""]
Caught(at, message) == [at |-> at, message |-> message]

NoCall ==
    [url |-> "",
     server |-> [hops |-> 0, loop |-> FALSE, relative |-> FALSE, final |-> "ok"]]
NoReply == [resolved |-> FALSE, data |-> "", error |-> "", requests |-> 0, url |-> ""]

\* A run that has not started.
NoRun ==
    [pc |-> "idle", existing |-> DefaultStore, newQuotes |-> << >>,
     output |-> DefaultStore]

\* $LOCK_FILE: whether it exists, and the lines of its content.
NoLock == [exists |-> FALSE, text |-> << >>]

\* Invocations of sync-thoughts-auto.sh the LaunchAgent makes.
MaxInvocations == 2
Invocations == 1..MaxInvocations

\* An invocation that has not been triggered: its position, its variables
\* last_run and now, and when its sync started and ended.
IdleShell ==
    [pc |-> "idle", last_run |-> << >>, now |-> 0, started |-> 0, ended |-> 0]

\* No function is applied on its own, no second run, no wrapper.
PureInit == input = "" /\ result = << >>
WrapperInit ==
    /\ clock = 0
    /\ lock = NoLock
    /\ shell = [i \in Invocations |-> IdleShell]

AsideInit ==
    /\ PureInit
    /\ other = NoRun
    /\ WrapperInit

MainInit ==
    /\ runs = 0
    /\ pc = "idle"
    /\ exitCode = -1
    /\ error = NoError
    /\ existing = DefaultStore
    /\ articles = << >>
    /\ idx = 1
    /\ newQuotes = << >>
    /\ output = DefaultStore
    /\ log = << >>
    /\ fetches = 0
    /\ prior = file
    /\ writes = 0
    /\ call = NoCall
    /\ reply = NoReply

Init ==
    /\ file \in { AbsentFile, CompleteFile(AgedStore) }
    /\ MainInit
    /\ AsideInit

Stopped == pc \in { "idle", "done", "failed", "killed" }

ResetScratch ==
    /\ articles' = << >>
    /\ idx' = 1
    /\ newQuotes' = << >>
    /\ output' = DefaultStore
    /\ log' = << >>

\* Variant of Parses: a truncated file reads as the default store.
ParsesAnything(f) == TRUE

\* JSON.parse(fs.readFileSync(quotesFile)) throws on a truncated file, and
\* on a JSON text followed by the rest of a longer one.
Parses(f) == f.status \notin { "truncated", "garbled" }

\* Variant of LoadedStore: the file is ignored.
LoadedStoreDefault(f) == DefaultStore

\* The store main() starts from.
LoadedStore(f) == IF f.status = "absent" THEN DefaultStore ELSE f.doc

(***************************************************************************)
(* A run of main().                                                        *)
(***************************************************************************)
\* Start of a run: the store is read, or defaulted when the file is absent.
LoadStore ==
    /\ Stopped
    /\ runs < MaxRuns
    /\ Parses(file)
    /\ runs' = runs + 1
    /\ prior' = file
    /\ writes' = 0
    /\ fetches' = 0
    /\ exitCode' = -1
    /\ error' = NoError
    /\ ResetScratch
    /\ existing' = LoadedStore(file)
    /\ pc' = "loaded"
    /\ UNCHANGED << file, fetcher, aside >>

\* Start of a run on a file that does not parse: JSON.parse throws, main()
\* rejects and the catch handler logs the error and exits with status 1.
LoadCorrupt ==
    /\ Stopped
    /\ runs < MaxRuns
    /\ ~Parses(file)
    /\ runs' = runs + 1
    /\ prior' = file
    /\ writes' = 0
    /\ fetches' = 0
    /\ ResetScratch
    /\ existing' = DefaultStore
    /\ error' = Caught("load", "SyntaxError")
    /\ exitCode' = 1
    /\ pc' = "failed"
    /\ UNCHANGED << file, fetcher, aside >>

\* Variant of IndexFailed: the rejection is caught and logged, and the run
\* goes on with no articles.
IndexFailedSwallowed ==
    /\ pc = "loaded"
    /\ \E message \in Rejections(BaseUrl) : error' = Caught("index", message)
    /\ fetches' = fetches + 1
    /\ pc' = "articles"
    /\ UNCHANGED << file, runs, exitCode, locals, prior, writes, fetcher, aside >>

\* await fetchUrl(index) rejects: main() rejects, the catch handler logs the
\* error and exits with status 1.
IndexFailed ==
    /\ pc = "loaded"
    /\ \E message \in Rejections(BaseUrl) : error' = Caught("index", message)
    /\ fetches' = fetches + 1
    /\ pc' = "failed"
    /\ exitCode' = 1
    /\ UNCHANGED << file, runs, locals, prior, writes, fetcher, aside >>

\* The candidates of an index page for a watermark: links, filter, sort.
Candidates(hrefs, lastUpdated) ==
    SortArticles(FilterArticles(ExtractLinks(hrefs, << >>), NewDate(lastUpdated)))

\* The watermarks the stores of this model carry, and for each of them the
\* candidate lists the index pages yield (a table of Candidates).
Watermarks ==
    { DefaultLastUpdated, AgedStore.lastUpdated }
        \cup ({ parseDateFromSlug(SlugOf(Hrefs[i])) : i \in 1..Len(Hrefs) } \ { Null })

LinkLists == { ExtractLinks(hrefs, << >>) : hrefs \in IndexPages }

CandidateTable ==
    [w \in Watermarks |->
        { SortArticles(FilterArticles(links, NewDate(w))) : links \in LinkLists }]

\* What scrapeArticle returns for each article of the index and each page
\* shape it may serve (a table of scrapeArticle; the date and the edition are
\* the ones main derives from the slug).
ArticleSlugs ==
    { slug \in { SlugOf(Hrefs[i]) : i \in 1..Len(Hrefs) } :
        parseDateFromSlug(slug) # Null }

ScrapeTable ==
    { [page |-> html, slug |-> slug,
       quotes |-> scrapeArticle(Served(html, slug), parseDateFromSlug(slug),
                                EditionOf(slug))] :
        html \in Pages, slug \in ArticleSlugs }

Scraped(html, slug) ==
    (CHOOSE e \in ScrapeTable : e.page = html /\ e.slug = slug).quotes

CandidateLists(lastUpdated) ==
    IF lastUpdated \in Watermarks THEN CandidateTable[lastUpdated]
    ELSE { Candidates(hrefs, lastUpdated) : hrefs \in IndexPages }

\* await fetchUrl(index) resolves: the links are extracted, filtered by the
\* watermark and sorted.
IndexFetched ==
    /\ pc = "loaded"
    /\ Resolutions(BaseUrl) # { }
    /\ articles' \in CandidateLists(existing.lastUpdated)
    /\ idx' = 1
    /\ fetches' = fetches + 1
    /\ pc' = "articles"
    /\ UNCHANGED << file, runs, exitCode, error, existing, newQuotes, output,
                    log, prior, writes, fetcher, aside >>

LogEntry(article, outcome, quotes) ==
    [url |-> article.url, date |-> article.date, outcome |-> outcome,
     quotes |-> quotes]

\* Variant of ArticleFailed: the rejection is not caught in the loop.
ArticleFailedFatal ==
    /\ pc = "articles"
    /\ idx <= Len(articles)
    /\ \E message \in Rejections(articles[idx].url) :
         error' = Caught("article", message)
    /\ log' = Append(log, LogEntry(articles[idx], "failed", << >>))
    /\ fetches' = fetches + 1
    /\ pc' = "failed"
    /\ exitCode' = 1
    /\ UNCHANGED << file, runs, existing, articles, idx, newQuotes, output,
                    prior, writes, fetcher, aside >>

\* One turn of the article loop whose fetch rejects: logged, skipped.
ArticleFailed ==
    /\ pc = "articles"
    /\ idx <= Len(articles)
    /\ Rejections(articles[idx].url) # { }
    /\ log' = Append(log, LogEntry(articles[idx], "failed", << >>))
    /\ idx' = idx + 1
    /\ fetches' = fetches + 1
    /\ UNCHANGED << file, runs, pc, exitCode, error, existing, articles,
                    newQuotes, output, prior, writes, fetcher, aside >>

\* One turn of the article loop whose fetch resolves with a page.
ArticleFetched ==
    /\ pc = "articles"
    /\ idx <= Len(articles)
    /\ Resolutions(articles[idx].url) # { }
    /\ \E html \in Pages :
         LET a == articles[idx]
             quotes == Scraped(html, a.slug)
         IN  IF Len(quotes) = 0
             THEN /\ log' = Append(log, LogEntry(a, "empty", << >>))
                  /\ UNCHANGED newQuotes
             ELSE /\ log' = Append(log, LogEntry(a, "quotes", quotes))
                  /\ newQuotes' = newQuotes \o quotes
    /\ idx' = idx + 1
    /\ fetches' = fetches + 1
    /\ UNCHANGED << file, runs, pc, exitCode, error, existing, articles, output,
                    prior, writes, fetcher, aside >>

\* After the loop: the merge, then writeFileSync opens the file for writing,
\* which truncates it.
MergeAndOpen ==
    /\ pc = "articles"
    /\ idx > Len(articles)
    /\ output' = Merge(existing, newQuotes)
    /\ file' = TruncatedFile
    /\ pc' = "writing"
    /\ UNCHANGED << runs, exitCode, error, existing, articles, idx, newQuotes,
                    log, fetches, prior, writes, fetcher, aside >>

\* After the loop: the merge, then writeFileSync cannot open the file and
\* throws: main() rejects, the catch handler logs the error and exits with
\* status 1.
OpenError ==
    /\ pc = "articles"
    /\ idx > Len(articles)
    /\ output' = Merge(existing, newQuotes)
    /\ error' = Caught("write", "EACCES")
    /\ pc' = "failed"
    /\ exitCode' = 1
    /\ UNCHANGED << file, runs, existing, articles, idx, newQuotes, log,
                    fetches, prior, writes, fetcher, aside >>

\* The bytes of a string in the text JSON.stringify makes and writeFileSync
\* encodes as UTF-8: a double quote is escaped, and an escape \uXXXX of the
\* strings of this model stands for a character of 3 bytes.
Utf8Length(str) ==
    Len(str) + Cardinality({ i \in 1..Len(str) : CharAt(str, i) = "\"" })
             - 3 * Cardinality({ i \in 1..(Len(str) - 1) :
                                    SubSeq(str, i, i + 1) = "\\u" })

\* The bytes of the quotes from position i on, each on 5 lines indented by 4
\* and 6 and followed by a comma but for the last.
RECURSIVE QuotesLength(_, _)
QuotesLength(quotes, i) ==
    IF i > Len(quotes) THEN 0
    ELSE 77 + Utf8Length(quotes[i].text) + Utf8Length(quotes[i].edition)
            + (IF i < Len(quotes) THEN 2 ELSE 1)
            + QuotesLength(quotes, i + 1)

\* The bytes of JSON.stringify(output, null, 2).
TextLength(doc) ==
    IF Len(doc.quotes) = 0 THEN 49
    ELSE 52 + QuotesLength(doc.quotes, 1)

\* The file after writeFileSync has written the text of doc from offset 0 on:
\* what the file held beyond the length of the text stays.
Written(f, doc) ==
    IF f.status \in { "complete", "garbled" } /\ TextLength(f.doc) > TextLength(doc)
    THEN [status |-> "garbled", doc |-> f.doc]
    ELSE CompleteFile(doc)

\* writeFileSync writes the JSON text and returns; main() resolves.
WriteData ==
    /\ pc = "writing"
    /\ file' = Written(file, output)
    /\ writes' = writes + 1
    /\ pc' = "done"
    /\ exitCode' = 0
    /\ UNCHANGED << runs, error, locals, fetches, prior, fetcher, aside >>

\* writeFileSync throws before the text is written (an I/O error, a full
\* disk): main() rejects, the catch handler logs the error and exits with
\* status 1.
WriteError ==
    /\ pc = "writing"
    /\ error' = Caught("write", "ENOSPC")
    /\ pc' = "failed"
    /\ exitCode' = 1
    /\ UNCHANGED << file, runs, locals, fetches, prior, writes, fetcher, aside >>

\* The process is killed in the middle of a run.
Interrupt ==
    /\ pc \in { "loaded", "articles", "writing" }
    /\ pc' = "killed"
    /\ ResetScratch
    /\ existing' = DefaultStore
    /\ UNCHANGED << file, runs, exitCode, error, fetches, prior, writes, fetcher, aside >>

Next ==
    \/ LoadStore
    \/ LoadCorrupt
    \/ IndexFailed
    \/ IndexFetched
    \/ ArticleFailed
    \/ ArticleFetched
    \/ MergeAndOpen
    \/ OpenError
    \/ WriteData
    \/ WriteError
    \/ Interrupt

Spec == Init /\ [][Next]_vars

(***************************************************************************)
(* fetchUrl on its own: a call is made against a scripted server, and      *)
(* settles.                                                                *)
(***************************************************************************)
FetchUrls == { BaseUrl } \cup { Hrefs[i] : i \in 1..Len(Hrefs) }

Settled(r) == r.requests > 0

mainState == << file, runs, pc, exitCode, error, locals, fetches, prior, writes >>

InitFetch == Init /\ file = AbsentFile

\* fetchUrl(url) is called.
FetchCall ==
    /\ call = NoCall \/ Settled(reply)
    /\ \E url \in FetchUrls, server \in Servers :
         call' = [url |-> url, server |-> server]
    /\ reply' = NoReply
    /\ UNCHANGED << mainState, aside >>

\* The promise the call returned settles.
FetchSettle ==
    /\ call # NoCall
    /\ ~Settled(reply)
    /\ reply' = fetchUrl(call.url, 0, call.server)
    /\ UNCHANGED << call, mainState, aside >>

NextFetch ==
    \/ FetchCall
    \/ FetchSettle

SpecFetch == InitFetch /\ [][NextFetch]_vars

(***************************************************************************)
(* The functions of the program on their own: an argument is drawn, the    *)
(* function is applied, and `result` holds what it has returned.           *)
(***************************************************************************)
Idle == file = AbsentFile /\ MainInit /\ other = NoRun /\ WrapperInit
idle == << mainState, fetcher, other, wrapper >>

\* Slugs: a month part, a day part and a year part, and shorter strings.
SlugMonths == { "january", "may", "december", "January", "MARCH", "jan",
                "constructor", "best-of", "brain-food-march", "" }
SlugDays == { "5", "05", "31", "0", "123", "1a", "" }
SlugYears == { "2026", "026", "20266", "abcd" }
SlugInputs ==
    { m \o "-" \o d \o "-" \o y : m \in SlugMonths, d \in SlugDays, y \in SlugYears }
        \cup { "", "2026", "5-2026", "march", "march-1-2026-" }

InitSlug == Idle /\ input \in SlugInputs /\ result = << >>

ParseSlug ==
    /\ result = << >>
    /\ result' = << parseDateFromSlug(input) >>
    /\ UNCHANGED << idle, input >>

NextSlug == ParseSlug

SpecSlug == InitSlug /\ [][NextSlug]_vars

\* Fragments: up to MaxTokens of these pieces in a row.
MaxTokens == 3
StripTokens == { "<b>", "</b>", "&lt;", "&gt;", "&amp;", "&#8220;", "&nbsp;",
                 "&#169;", "&copy;", " ", "\n", "b", "x" }

RECURSIVE FragmentsUpTo(_)
FragmentsUpTo(n) ==
    IF n = 0 THEN { "" }
    ELSE LET shorter == FragmentsUpTo(n - 1)
         IN  shorter \cup { f \o t : f \in shorter, t \in StripTokens }

StripInputs == FragmentsUpTo(MaxTokens)

InitStrip == Idle /\ input \in StripInputs /\ result = << >>

\* stripHtml is applied to the fragment, then to what it has returned.
Normalize ==
    /\ Len(result) < 2
    /\ result' = Append(result, stripHtml(IF result = << >> THEN input
                                          ELSE result[Len(result)]))
    /\ UNCHANGED << idle, input >>

NextStrip == Normalize

SpecStrip == InitStrip /\ [][NextStrip]_vars

\* Pages: the anchor or not, and up to MaxGroups groups of these kinds.
MaxGroups == 4
GroupKinds ==
    { << "tiny" >>,
      << "<em>tiny</em>", " fives ", "&ldquo;Hi&rdquo;" >>,
      << "sixsix" >>,
      << "One <b>thought</b>.", "tiny", "It goes on." >> }

\* And pages with a group that has no paragraph.
SparsePages ==
    { [anchor |-> TRUE, groups |-> << << >> >>],
      [anchor |-> TRUE, groups |-> << << "sixsix" >>, << >>, << "sixsix" >> >>] }

ScrapeInputs ==
    [anchor : BOOLEAN, groups : SeqsUpTo(GroupKinds, MaxGroups)] \cup SparsePages

ScrapeDate == "2026-02-22"
ScrapeEdition == EditionOf("february-22-2026")

InitScrape == Idle /\ input \in ScrapeInputs /\ result = << >>

Scrape ==
    /\ result = << >>
    /\ result' = << scrapeArticle(input, ScrapeDate, ScrapeEdition) >>
    /\ UNCHANGED << idle, input >>

NextScrape == Scrape

SpecScrape == InitScrape /\ [][NextScrape]_vars

(***************************************************************************)
(* The wrapper sync-thoughts-auto.sh.  Each command of the script is a     *)
(* step of an invocation; the LaunchAgent may start an invocation while    *)
(* another one runs.                                                       *)
(***************************************************************************)
\* DEBOUNCE=300
Debounce == 300
\* date +%s when the model starts, far more than DEBOUNCE; the clock goes by
\* Tick seconds for MaxClock seconds.
Epoch == 10 * Debounce
Tick == 150
MaxClock == 600

InitShell ==
    /\ file = AbsentFile /\ MainInit /\ PureInit /\ other = NoRun
    /\ clock = Epoch
    /\ lock = NoLock
    /\ shell = [i \in Invocations |-> IdleShell]

apart == << mainState, fetcher, pure, other >>

\* if [ -f "$LOCK_FILE" ]
Trigger(i) ==
    /\ shell[i].pc = "idle"
    /\ shell' = [shell EXCEPT ![i].pc = IF lock.exists THEN "cat" ELSE "stamp"]
    /\ UNCHANGED << apart, clock, lock >>

\* last_run=$(cat "$LOCK_FILE")
Cat(i) ==
    /\ shell[i].pc = "cat"
    /\ shell' = [shell EXCEPT ![i].last_run = lock.text, ![i].pc = "date"]
    /\ UNCHANGED << apart, clock, lock >>

\* now=$(date +%s); elapsed=$((now - last_run)); the test of elapsed.  A
\* last_run read from the file while it was empty counts as 0.
Elapsed(i) ==
    LET last == IF shell[i].last_run = << >> THEN 0 ELSE shell[i].last_run[1]
    IN  /\ shell[i].pc = "date"
        /\ shell' = [shell EXCEPT
                        ![i].now = clock,
                        ![i].pc = IF clock - last < Debounce
                                  THEN "skipped" ELSE "stamp"]
        /\ UNCHANGED << apart, clock, lock >>

\* date +%s > "$LOCK_FILE": the redirection creates or truncates the file,
OpenLock(i) ==
    /\ shell[i].pc = "stamp"
    /\ lock' = [exists |-> TRUE, text |-> << >>]
    /\ shell' = [shell EXCEPT ![i].pc = "write"]
    /\ UNCHANGED << apart, clock >>

\* then date writes the time, and python3 sync-thoughts.py starts.
Stamp(i) ==
    /\ shell[i].pc = "write"
    /\ lock' = [exists |-> TRUE, text |-> << clock >>]
    /\ shell' = [shell EXCEPT ![i].started = clock, ![i].pc = "sync"]
    /\ UNCHANGED << apart, clock >>

\* python3 sync-thoughts.py ends.
SyncEnd(i) ==
    /\ shell[i].pc = "sync"
    /\ shell' = [shell EXCEPT ![i].ended = clock, ![i].pc = "done"]
    /\ UNCHANGED << apart, clock, lock >>

\* Time passes.
Advance ==
    /\ clock + Tick <= Epoch + MaxClock
    /\ clock' = clock + Tick
    /\ UNCHANGED << apart, lock, shell >>

NextShell ==
    \/ \E i \in Invocations :
         \/ Trigger(i)
         \/ Cat(i)
         \/ Elapsed(i)
         \/ OpenLock(i)
         \/ Stamp(i)
         \/ SyncEnd(i)
    \/ Advance

SpecDebounce == InitShell /\ [][NextShell]_vars

(***************************************************************************)
(* Two runs of main() at once: the run above, and a second one whose steps *)
(* are the ones that touch the file (load, open, write) and, as one step,  *)
(* its fetches.                                                            *)
(***************************************************************************)
\* Runs of the first process, and candidates of a run, in a race.
MaxRaceRuns == 1
RaceLinks == 1

\* The new quotes a run may collect from a candidate list: each article
\* fails, or serves one of the pages.
RECURSIVE Harvests(_)
Harvests(list) ==
    IF Len(list) = 0 THEN { << >> }
    ELSE { h \o t : h \in { << >> } \cup { Scraped(html, list[1].slug) : html \in Pages },
                    t \in Harvests(Tail(list)) }

InitRace == Init

separate == << runs, pc, exitCode, error, locals, fetches, prior, writes,
               fetcher, pure, wrapper >>

\* The second run reads the store.
OtherLoad ==
    /\ other.pc = "idle"
    /\ Parses(file)
    /\ other' = [other EXCEPT !.pc = "loaded", !.existing = LoadedStore(file)]
    /\ UNCHANGED << file, separate >>

\* The second run reads a file that does not parse, and exits.
OtherLoadCorrupt ==
    /\ other.pc = "idle"
    /\ ~Parses(file)
    /\ other' = [other EXCEPT !.pc = "failed"]
    /\ UNCHANGED << file, separate >>

\* The second run fetches the index and goes through its candidates.
OtherFetch ==
    /\ other.pc = "loaded"
    /\ \E list \in CandidateLists(other.existing.lastUpdated) :
         /\ Len(list) <= RaceLinks
         /\ \E harvest \in Harvests(list) :
              other' = [other EXCEPT !.pc = "fetched", !.newQuotes = harvest]
    /\ UNCHANGED << file, separate >>

\* The second run merges, and writeFileSync opens the file.
OtherOpen ==
    /\ other.pc = "fetched"
    /\ other' = [other EXCEPT !.pc = "writing",
                              !.output = Merge(other.existing, other.newQuotes)]
    /\ file' = TruncatedFile
    /\ UNCHANGED separate

\* writeFileSync of the second run writes its text.
OtherWrite ==
    /\ other.pc = "writing"
    /\ file' = Written(file, other.output)
    /\ other' = [other EXCEPT !.pc = "done"]
    /\ UNCHANGED separate

\* A step of the first run, within the bounds of the race.
FirstRun == Next /\ runs' <= MaxRaceRuns /\ Len(articles') <= RaceLinks

NextRace ==
    \/ FirstRun
    \/ OtherLoad
    \/ OtherLoadCorrupt
    \/ OtherFetch
    \/ OtherOpen
    \/ OtherWrite

SpecRace == InitRace /\ [][NextRace]_vars

(***************************************************************************)
(* Properties.                                                             *)
(***************************************************************************)
\* The combined sequence of a run: the loaded quotes, then the new ones.
Combined == existing.quotes \o newQuotes

\* The dates of S that fewer than 12 dates of S exceed.
GreatestDates(S) == { d \in S : Cardinality({ e \in S : StrLess(d, e) }) < Retention }

\* d is the greatest date of S.
IsGreatest(d, S) == d \in S /\ \A e \in S : StrLeq(e, d)

\* The quotes of a sequence whose date is in a set, in their order.
Restrict(quotes, dates) ==
    LET Dated(q) == q.date \in dates
    IN  SelectSeq(quotes, Dated)

\* C1: every stored file holds quotes of at most 12 distinct dates, and the
\* store a run has written holds exactly the quotes of the combined sequence
\* (loaded quotes, then new quotes) whose date is among its 12 greatest
\* distinct dates, in their order.
C1_RetentionWindow ==
    /\ file.status = "complete" =>
         Cardinality(DatesOf(file.doc.quotes)) <= Retention
    /\ pc = "done" =>
         file.doc.quotes = Restrict(Combined, GreatestDates(DatesOf(Combined)))

\* A run has written a store from a combined sequence of more than 12
\* distinct dates, and the store holds 12 of them.
C1_Witness ==
    /\ pc = "done"
    /\ Cardinality(DatesOf(Combined)) > Retention
    /\ Cardinality(DatesOf(file.doc.quotes)) = Retention
    /\ Len(file.doc.quotes) < Len(Combined)

\* C2: the lastUpdated a run writes is the greatest date of the combined
\* sequence, or the loaded lastUpdated when that sequence is empty; and in
\* every stored file lastUpdated is the greatest date of the stored quotes,
\* or 2025-12-01 when there are none.
C2_Watermark ==
    /\ pc = "done" =>
         IF Combined = << >>
         THEN file.doc.lastUpdated = existing.lastUpdated
         ELSE IsGreatest(file.doc.lastUpdated, DatesOf(Combined))
    /\ file.status = "complete" =>
         IF file.doc.quotes = << >>
         THEN file.doc.lastUpdated = DefaultLastUpdated
         ELSE IsGreatest(file.doc.lastUpdated, DatesOf(file.doc.quotes))

\* A run has added quotes and written a lastUpdated later than the one it
\* loaded.
C2_Witness ==
    /\ pc = "done"
    /\ newQuotes # << >>
    /\ StrLess(existing.lastUpdated, file.doc.lastUpdated)
    /\ IsGreatest(file.doc.lastUpdated, DatesOf(newQuotes))

\* C3: a run on a store that a run has written, whose filter yields no
\* candidate, writes the store it read: same lastUpdated, same quotes in the
\* same order.
C3_Idempotence ==
    (pc = "done" /\ prior.status = "complete" /\ articles = << >>) =>
        file = prior

\* The second run of a history has read the store the first run has written
\* with new quotes, found no candidate, and written it back.
C3_Witness ==
    /\ pc = "done"
    /\ runs = 2
    /\ articles = << >>
    /\ prior.status = "complete"
    /\ prior.doc # AgedStore
    /\ prior.doc.quotes # << >>
    /\ writes = 1
    /\ file = prior

\* C4: every article a run fetches has a date parsed from its slug that is
\* strictly after the lastUpdated the run has loaded, no URL is fetched
\* twice in a run, and the articles are fetched in ascending order of date.
C4_IncrementalSelection ==
    /\ \A i \in 1..Len(log) :
         /\ log[i].date # Null
         /\ StrLess(existing.lastUpdated, log[i].date)
    /\ \A i, j \in 1..Len(log) :
         i < j => /\ log[i].url # log[j].url
                  /\ StrLeq(log[i].date, log[j].date)

\* The quotes the logged fetches have returned, in the order of the log.
RECURSIVE LoggedQuotes(_)
LoggedQuotes(entries) ==
    IF Len(entries) = 0 THEN << >>
    ELSE entries[1].quotes \o LoggedQuotes(Tail(entries))

\* C5: the loop goes through the candidates in order whatever their fetches
\* come to; a failed fetch contributes no quote and the new quotes are those
\* of the other articles; the merge and the write happen once every
\* candidate has been gone through; a run that has written exits with
\* status 0; and the failure status comes only from the load, the index
\* fetch or the write, never from an article.
C5_FailureIsolation ==
    /\ Len(log) = idx - 1
    /\ Len(log) <= Len(articles)
    /\ \A i \in 1..Len(log) :
         /\ log[i].url = articles[i].url
         /\ log[i].outcome = "failed" => log[i].quotes = << >>
    /\ newQuotes = LoggedQuotes(log)
    /\ (pc \in { "writing", "done" } \/ error.at = "write") =>
         /\ Len(log) = Len(articles)
         /\ output = Merge(existing, newQuotes)
    /\ pc = "done" =>
         /\ exitCode = 0
         /\ writes = 1
         /\ file = CompleteFile(Merge(LoadedStore(prior), newQuotes))
    /\ exitCode = 1 => error.at \in { "load", "index", "write" }

\* A run whose first candidate has failed has fetched a later one, and has
\* written its quotes and exited with status 0.
C5_Witness ==
    /\ pc = "done"
    /\ exitCode = 0
    /\ Len(log) >= 2
    /\ log[1].outcome = "failed"
    /\ log[Len(log)].outcome = "quotes"
    /\ \E k \in 1..Len(file.doc.quotes) :
         file.doc.quotes[k] = log[Len(log)].quotes[1]

\* C6: a run whose index fetch has failed has fetched nothing else, has
\* written nothing, has left the file as it found it, has logged the error
\* and has exited with status 1.
C6_IndexFailureFatal ==
    error.at = "index" =>
        /\ pc = "failed"
        /\ exitCode = 1
        /\ error.message \in { "transport", "Too many redirects" }
        /\ fetches = 1
        /\ articles = << >>
        /\ log = << >>
        /\ writes = 0
        /\ file = prior

\* A run on a stored file has failed at the index fetch.
C6_Witness ==
    /\ error.at = "index"
    /\ exitCode = 1
    /\ prior.status = "complete"
    /\ prior.doc.quotes # << >>
    /\ file = prior

\* C7: a call sends at most 6 requests; against at most 5 redirects followed
\* by an answer that is no redirect it resolves with that answer's data
\* after one request per hop and one more; against 6 or more redirects, or a
\* redirect cycle, it rejects with 'Too many redirects'.
C7_RedirectBudget ==
    Settled(reply) =>
        LET server == call.server
        IN  /\ reply.requests <= MaxRedirects + 1
            /\ (~server.loop /\ server.hops <= MaxRedirects /\ server.final # "error") =>
                 /\ reply.resolved
                 /\ reply.data = Content
                 /\ reply.requests = server.hops + 1
            /\ (server.loop \/ server.hops > MaxRedirects) =>
                 /\ ~reply.resolved
                 /\ reply.error = "Too many redirects"
                 /\ reply.requests = MaxRedirects + 1

\* A call against 5 redirects and then a page has resolved with the page.
C7_Witness ==
    /\ Settled(reply)
    /\ call.server.hops = MaxRedirects
    /\ ~call.server.loop
    /\ reply.resolved
    /\ reply.data = Content
    /\ reply.requests = MaxRedirects + 1

\* C8: a run that has found no file works from the default store; a run that
\* has found a file that does not parse has failed with status 1 at the
\* load, and has fetched nothing, written nothing and left the file alone.
C8_StoreLoading ==
    /\ (prior.status = "absent" /\ pc \in { "loaded", "articles", "writing", "done" }) =>
         existing = DefaultStore
    /\ prior.status = "truncated" =>
         /\ pc = "failed"
         /\ exitCode = 1
         /\ error.at = "load"
         /\ fetches = 0
         /\ log = << >>
         /\ writes = 0
         /\ file = prior

\* A run has found a file that does not parse.
C8_Witness ==
    /\ runs = 2
    /\ prior.status = "truncated"
    /\ pc = "failed"
    /\ exitCode = 1
    /\ file.status = "truncated"

\* C9: a run writes at most once, and when it has stopped, however it has
\* stopped, the file is the one it found or the complete output of its
\* merge.
C9_ConsistentPersistence ==
    /\ writes <= 1
    /\ (pc \in { "done", "failed", "killed" }) =>
         \/ file = prior
         \/ pc = "done" /\ file = CompleteFile(output)

\* C10: in a run that has written, a failed article that came after an
\* article that contributed quotes, and whose date no contributing article
\* of the run has, is dated after the lastUpdated written; and that
\* lastUpdated is the date of the newest contributing article, or the loaded
\* lastUpdated when no article has contributed.
C10_WatermarkBeforeFailure ==
    pc = "done" =>
        LET Contributed == { i \in 1..Len(log) : log[i].outcome = "quotes" }
        IN  /\ \A i \in 1..Len(log) :
                 (/\ log[i].outcome = "failed"
                  /\ \E j \in Contributed : j < i
                  /\ \A j \in Contributed : log[j].date # log[i].date)
                 => StrLess(file.doc.lastUpdated, log[i].date)
            /\ IF Contributed = { }
               THEN file.doc.lastUpdated = existing.lastUpdated
               ELSE \E j \in Contributed :
                      /\ file.doc.lastUpdated = log[j].date
                      /\ \A k \in Contributed : StrLeq(log[k].date, log[j].date)

\* C12: the quotes a run writes are the loaded quotes followed by the new
\* quotes, less the quotes of the pruned dates: the retained loaded quotes
\* come first, in their order and as they were loaded (text, edition, date),
\* then the retained new quotes in their order; and a date is pruned only
\* when 12 later dates are kept.
C12_MergePreservesOrder ==
    pc = "done" =>
        LET stored == file.doc.quotes
            kept == DatesOf(stored)
        IN  /\ stored = Restrict(existing.quotes, kept) \o Restrict(newQuotes, kept)
            /\ \A i \in 1..Len(Combined) :
                 Combined[i].date \notin kept =>
                     /\ Cardinality(kept) = Retention
                     /\ \A d \in kept : StrLess(Combined[i].date, d)

\* A run has loaded quotes and added new ones, a date of the loaded quotes
\* has been pruned, and loaded quotes and new quotes are both stored.
C12_Witness ==
    /\ pc = "done"
    /\ Len(file.doc.quotes) < Len(Combined)
    /\ Restrict(existing.quotes, DatesOf(file.doc.quotes)) # << >>
    /\ Restrict(newQuotes, DatesOf(file.doc.quotes)) # << >>
    /\ Len(newQuotes) >= 2

\* The month names as an edition label writes them, and the two-digit
\* numbers of the months and of a day token.
TitleMonths == << "January", "February", "March", "April", "May", "June",
                  "July", "August", "September", "October", "November",
                  "December" >>
TwoDigits(n) == IF n < 10 THEN "0" \o ToString(n) ELSE ToString(n)
DigitValue(c) == CHOOSE v \in 0..9 : ToString(v) = c
DayNumber(token) ==
    IF Len(token) = 2
    THEN 10 * DigitValue(CharAt(token, 1)) + DigitValue(CharAt(token, 2))
    ELSE DigitValue(token)

\* The date and the label of the article of a URL <month>-<day>-<year>.
ArticleTag(url) ==
    LET tokens == Split(SlugOf(url), "-")
        month == CHOOSE k \in 1..12 : MonthNames[k] = tokens[1]
    IN  [date |-> tokens[3] \o "-" \o TwoDigits(month) \o "-"
                    \o TwoDigits(DayNumber(tokens[2])),
         edition |-> "Brain Food " \o EnDash \o " " \o TitleMonths[month] \o " "
                        \o ToString(DayNumber(tokens[2])) \o ", " \o tokens[3]]

\* C13: a run on no stored file whose only candidate is february-22-2026,
\* serving a section of two groups with text and one without, writes
\* lastUpdated 2026-02-22 and two quotes of date 2026-02-22 and edition
\* "Brain Food - February 22, 2026" (with an en dash); and every quote a run
\* adds carries the date of its article and the label made of the month
\* name title-cased, the day as an integer and the year.
C13_EndToEnd ==
    /\ (/\ pc = "done"
        /\ prior = AbsentFile
        /\ Len(articles) = 1
        /\ articles[1].url = BaseUrl \o "february-22-2026/"
        /\ log[1].outcome = "quotes")
       => /\ file.status = "complete"
          /\ file.doc.lastUpdated = "2026-02-22"
          /\ Len(file.doc.quotes) = 2
          /\ \A i \in 1..2 :
               /\ file.doc.quotes[i].date = "2026-02-22"
               /\ file.doc.quotes[i].edition
                    = "Brain Food " \o EnDash \o " February 22, 2026"
    /\ \A k \in 1..Len(log) :
         \A i \in 1..Len(log[k].quotes) :
            /\ log[k].quotes[i].date = ArticleTag(log[k].url).date
            /\ log[k].quotes[i].edition = ArticleTag(log[k].url).edition
    /\ newQuotes = LoggedQuotes(log)

\* That run has happened: the section of february-22-2026 had the groups of
\* TwoGroupsPage, and two quotes are stored.
C13_Witness ==
    /\ pc = "done"
    /\ prior = AbsentFile
    /\ Len(articles) = 1
    /\ articles[1].url = BaseUrl \o "february-22-2026/"
    /\ log[1].outcome = "quotes"
    /\ Len(TwoGroupsPage.groups) = 3
    /\ Len(file.doc.quotes) = 2

\* C17: when a run has written, the lastUpdated it has written is strictly
\* before the date of every article whose fetch has failed in the run, and
\* the filter of the next run selects that article again.
C17_FailedArticleRetried ==
    pc = "done" =>
        \A i \in 1..Len(log) :
            log[i].outcome = "failed" =>
                /\ StrLess(file.doc.lastUpdated, log[i].date)
                /\ IsNewer(log[i].date, NewDate(file.doc.lastUpdated))

\* C18: every quote a run adds has a date strictly after the lastUpdated the
\* run has loaded and after every date it has loaded, and no quote is in a
\* stored file twice.
C18_NoDuplicateIngestion ==
    /\ \A i \in 1..Len(newQuotes) :
         /\ StrLess(existing.lastUpdated, newQuotes[i].date)
         /\ \A d \in DatesOf(existing.quotes) : StrLess(d, newQuotes[i].date)
    /\ file.status = "complete" =>
         \A i, j \in 1..Len(file.doc.quotes) :
            i < j => file.doc.quotes[i] # file.doc.quotes[j]

\* C19: the lastUpdated a run writes is not earlier than the one it has
\* loaded, as a string and as a Date; and from one stored file to the next
\* lastUpdated does not go back.
C19_WatermarkMonotone ==
    /\ pc = "done" =>
         /\ StrLeq(existing.lastUpdated, file.doc.lastUpdated)
         /\ ~DateGreater(NewDate(existing.lastUpdated),
                         NewDate(file.doc.lastUpdated))
    /\ (file.status = "complete" /\ prior.status = "complete") =>
         StrLeq(prior.doc.lastUpdated, file.doc.lastUpdated)

\* The second run of a history has added quotes of a date that is before the
\* loaded lastUpdated as a string, and has written the lastUpdated it loaded.
C19_Witness ==
    /\ pc = "done"
    /\ runs = 2
    /\ \E i \in 1..Len(newQuotes) :
         StrLess(newQuotes[i].date, existing.lastUpdated)
    /\ file.doc.lastUpdated = existing.lastUpdated

\* The normalized text of each paragraph of the pages (a table of stripHtml).
NormalTable ==
    UNION { { [raw |-> kind[p], text |-> stripHtml(kind[p])] : p \in DOMAIN kind } :
            kind \in GroupKinds }
Normalized(raw) == (CHOOSE e \in NormalTable : e.raw = raw).text

\* The normalized paragraphs of a group that are longer than 5 code units.
Surviving(group) ==
    LET Long(text) == CodeUnits(text) > 5
    IN  SelectSeq([p \in DOMAIN group |-> Normalized(group[p])], Long)

\* The groups of a page that have such a paragraph, and the k-th of a set of
\* positions.
GoodGroups(page) ==
    { g \in DOMAIN page.groups : Surviving(page.groups[g]) # << >> }
NthOf(S, k) == CHOOSE g \in S : Cardinality({ h \in S : h < g }) = k - 1

\* C14: on a page with the anchor scrapeArticle returns one item for each of
\* the first 3 groups that have a paragraph whose normalized text is longer
\* than 5 characters, in the order of the page, whose text is the surviving
\* fragments joined by spaces; later groups are ignored and a group without
\* such a paragraph yields no item; on a page without the anchor it returns
\* an empty list.
C14_SectionExtraction ==
    result # << >> =>
        LET items == result[1]
            good == GoodGroups(input)
            taken == { g \in good : Cardinality({ h \in good : h < g }) < 3 }
        IN  IF ~input.anchor THEN items = << >>
            ELSE /\ Len(items) = Cardinality(taken)
                 /\ \A k \in 1..Len(items) :
                      /\ items[k].text
                           = Join(Surviving(input.groups[NthOf(taken, k)]), " ")
                      /\ items[k].date = ScrapeDate
                      /\ items[k].edition = ScrapeEdition

\* A page of four groups with text, one of them after a group whose only
\* paragraph has 4 characters, has yielded three items.
C14_Witness ==
    /\ result # << >>
    /\ input.anchor
    /\ Cardinality(GoodGroups(input)) = 3
    /\ input.groups[2] = << "tiny" >>
    /\ Len(input.groups) = 4
    /\ Len(result[1]) = 3
    /\ result[1][3].text = "One thought. It goes on."

\* The lower-case form of a string.
LowerCase(s) ==
    LET Low(c) ==
            IF c \in CharsOf(Upper)
            THEN CharAt(Lower, CHOOSE i \in 1..26 : CharAt(Upper, i) = c)
            ELSE c
    IN  Concat([i \in 1..Len(s) |-> Low(CharAt(s, i))], 1, Len(s))

\* What the slug date parser is to return: the date of a slug
\* <month>-<day>-<year>, null for anything else.
SlugDate(slug) ==
    LET tokens == Split(slug, "-")
        Digital(s) == \A i \in 1..Len(s) : \E v \in 0..9 : ToString(v) = CharAt(s, i)
    IN  IF /\ Len(tokens) = 3
           /\ \E k \in 1..12 : MonthNames[k] = LowerCase(tokens[1])
           /\ Len(tokens[2]) \in 1..2 /\ Digital(tokens[2])
           /\ Len(tokens[3]) = 4 /\ Digital(tokens[3])
        THEN tokens[3] \o "-"
                \o TwoDigits(CHOOSE k \in 1..12 : MonthNames[k] = LowerCase(tokens[1]))
                \o "-" \o TwoDigits(DayNumber(tokens[2]))
        ELSE Null

\* C15: parseDateFromSlug returns the zero-padded date YYYY-MM-DD of a slug
\* made of a month name in any case, a day of 1 or 2 digits and a year of 4
\* digits, and null for every other string.
C15_SlugParsing ==
    result # << >> => result[1] = SlugDate(input)

\* C16: stripHtml applied to what stripHtml has returned returns it
\* unchanged.
C16_Idempotent ==
    Len(result) = 2 => result[2] = result[1]

\* C20: two invocations of the wrapper that have started the sync have
\* started it at least 300 seconds apart, and no two invocations are in the
\* sync at the same time.
C20_Debounce ==
    \A i, j \in Invocations :
        (i # j /\ shell[i].pc \in { "sync", "done" }
               /\ shell[j].pc \in { "sync", "done" }) =>
            /\ \/ shell[i].started - shell[j].started >= Debounce
               \/ shell[j].started - shell[i].started >= Debounce
            /\ ~(shell[i].pc = "sync" /\ shell[j].pc = "sync")

\* C11: when two runs interleave, the file is never a text that was written
\* over another, and every store in the file has lastUpdated equal to its
\* greatest date, at most 12 dates, and no quote twice.
C11_RaceKeepsStore ==
    /\ file.status # "garbled"
    /\ file.status = "complete" =>
         /\ file.doc.quotes # << >> =>
              IsGreatest(file.doc.lastUpdated, DatesOf(file.doc.quotes))
         /\ Cardinality(DatesOf(file.doc.quotes)) <= Retention
         /\ \A i, j \in 1..Len(file.doc.quotes) :
              i < j => file.doc.quotes[i] # file.doc.quotes[j]

====
